---------------------------- MODULE Spec2Model ----------------------------
(***************************************************************************)
(* A model of backports.tempfile (src/src/backports/tempfile.py) on a      *)
(* POSIX platform (os.name = 'posix', files can be unlinked while open):   *)
(* NamedTemporaryFile with its _TemporaryFileWrapper/_TemporaryFileCloser, *)
(* the anonymous TemporaryFile, and TemporaryDirectory with its            *)
(* weakref.finalize finalizer, over a small file system.                   *)
(***************************************************************************)
EXTENDS Integers, Sequences, FiniteSets, TLC

(***************************************************************************)
(* Bounds of the model.                                                    *)
(***************************************************************************)
\* named temporary file handles the caller may create
MaxFiles == 1
\* TemporaryDirectory objects the caller may create
MaxDirs == 1
\* candidate names tried by one creation call (tempfile.TMP_MAX, scaled down)
TMP_MAX == 2
\* distinct random name tokens the name generator can draw
NTokens == 2
\* arguments handed to _infer_return_type in one call
MaxArgs == 4

TokenNames == <<"t1", "t2", "t3", "t4">>
Tokens == {TokenNames[i] : i \in 1..NTokens}
FileIds == 1..MaxFiles
DirIds == 1..MaxDirs
\* the creator of a file system entry: a named-file slot, a directory slot,
\* the anonymous TemporaryFile, or the user (0)
ByUser == 0
ByFile(f) == f
ByDir(d) == MaxFiles + d
ByAnon == MaxFiles + MaxDirs + 1

(***************************************************************************)
(* The file system: a function from the existing paths to their entries.   *)
(* A path is a sequence of names.  <<"tmp">> is the default temporary      *)
(* directory, <<"ext">> a directory outside it, <<"nodir">> never exists.  *)
(***************************************************************************)
TmpDir == <<"tmp">>
ExtDir == <<"ext">>
NoDir == <<"nodir">>
\* a directory the process may not write to
RoDir == <<"ro">>
NoPath == <<>>

\* a counter of calls, kept exact up to "more than once"
Inc(n) == IF n < 2 THEN n + 1 ELSE n

TempPath(dir, tok) == Append(dir, tok)
TempPaths == {TempPath(TmpDir, t) : t \in Tokens}
ChildNames == {"f", "sub", "lnk"}
Paths == {TmpDir, ExtDir, RoDir, Append(ExtDir, "keep")} \cup TempPaths
           \cup {Append(p, c) : p \in TempPaths, c \in ChildNames}
           \cup {Append(Append(p, "sub"), "g") : p \in TempPaths}

DirEntry(by) == [kind |-> "dir", by |-> by, to |-> NoPath]
FileEntry(by) == [kind |-> "file", by |-> by, to |-> NoPath]
LinkEntry(t) == [kind |-> "link", by |-> ByUser, to |-> t]

Exists(f, p) == p \in DOMAIN f
IsDir(f, p) == Exists(f, p) /\ f[p].kind = "dir"
Parent(p) == SubSeq(p, 1, Len(p) - 1)
Children(f, p) == {q \in DOMAIN f : Len(q) = Len(p) + 1 /\ Parent(q) = p}
Remove(f, ps) == [q \in (DOMAIN f) \ ps |-> f[q]]
Add(f, p, e) == [q \in (DOMAIN f) \cup {p} |-> IF q = p THEN e ELSE f[q]]

(***************************************************************************)
(* Operating system and library collaborators, as the module calls them.   *)
(* Each returns the error it raises ("none" when it succeeds) and the file *)
(* system it leaves.                                                       *)
(***************************************************************************)
Err(type, errno) == [type |-> type, errno |-> errno]
NoExc == Err("none", "none")
ENOENT == Err("FileNotFoundError", "ENOENT")
EEXIST == Err("FileExistsError", "EEXIST")
EISDIR == Err("IsADirectoryError", "EISDIR")
ENOTDIR == Err("NotADirectoryError", "ENOTDIR")
EACCES == Err("PermissionError", "EACCES")
EIO == Err("OSError", "EIO")
\* FileExistsError(EEXIST, "No usable temporary ... name found")
NoUsableName == Err("FileExistsError: no usable temporary name", "EEXIST")
\* OSError("Cannot call rmtree on a symbolic link")
RmtreeOnLink == Err("OSError: rmtree on a symbolic link", "none")
MixedTypes == Err("TypeError", "none")
BadMode == Err("ValueError", "none")

\* os.unlink(p): removes a file or a symbolic link, never a directory
os_unlink(f, p) ==
    IF ~Exists(f, p) THEN [exc |-> ENOENT, fs |-> f]
    ELSE IF f[p].kind = "dir" THEN [exc |-> EISDIR, fs |-> f]
    ELSE [exc |-> NoExc, fs |-> Remove(f, {p})]

\* a mkdir that takes over an entry that exists
MkdirOverExisting(f, p, by) == [exc |-> NoExc, fs |-> Add(f, p, DirEntry(by))]

\* os.mkdir(p)
os_mkdir(f, p, by) ==
    IF Exists(f, p) THEN [exc |-> EEXIST, fs |-> f]
    ELSE IF ~IsDir(f, Parent(p)) THEN [exc |-> ENOENT, fs |-> f]
    ELSE IF Parent(p) = RoDir THEN [exc |-> EACCES, fs |-> f]
    ELSE [exc |-> NoExc, fs |-> Add(f, p, DirEntry(by))]

\* os.open(p, O_RDWR | O_CREAT | O_EXCL | ...)
os_open_excl(f, p, by) ==
    IF Exists(f, p) THEN [exc |-> EEXIST, fs |-> f]
    ELSE IF ~IsDir(f, Parent(p)) THEN [exc |-> ENOENT, fs |-> f]
    ELSE IF Parent(p) = RoDir THEN [exc |-> EACCES, fs |-> f]
    ELSE [exc |-> NoExc, fs |-> Add(f, p, FileEntry(by))]

\* The entries shutil.rmtree(p) removes: it descends into the directories
\* of the tree and unlinks everything else, symbolic links included.
RECURSIVE Walk(_, _)
WalkFollowingLinks(f, p) ==
    {p} \cup UNION {IF f[c].kind = "dir" THEN Walk(f, c)
                    ELSE IF f[c].kind = "link" /\ IsDir(f, f[c].to)
                         THEN {c} \cup UNION {Walk(f, t) : t \in Children(f, f[c].to)}
                         ELSE {c} : c \in Children(f, p)}
Walk(f, p) ==
    {p} \cup UNION {IF f[c].kind = "dir" THEN Walk(f, c) ELSE {c} :
                    c \in Children(f, p)}

\* shutil.rmtree(p)
_rmtree(f, p) ==
    IF ~Exists(f, p) THEN [exc |-> ENOENT, fs |-> f]
    ELSE IF f[p].kind = "link" THEN [exc |-> RmtreeOnLink, fs |-> f]
    ELSE IF f[p].kind = "file" THEN [exc |-> ENOTDIR, fs |-> f]
    ELSE [exc |-> NoExc, fs |-> Remove(f, Walk(f, p))]

(***************************************************************************)
(* Name candidates and exclusive creation (tempfile.mkdtemp and            *)
(* tempfile._mkstemp_inner): up to TMP_MAX candidates, one random token    *)
(* each (toks[i] is the i-th draw); only "already exists" is retried.      *)
(* errs holds what each attempt raised, in order.                          *)
(***************************************************************************)
TokenDraws == [1..TMP_MAX -> Tokens]

RECURSIVE MkdirLoop(_, _, _, _, _)
MkdirLoop(f, dir, toks, i, by) ==
    IF i > TMP_MAX
    THEN [exc |-> NoUsableName, fs |-> f, name |-> NoPath, tries |-> TMP_MAX,
          errs |-> <<>>]
    ELSE LET r == os_mkdir(f, TempPath(dir, toks[i]), by) IN
         IF r.exc = NoExc
         THEN [exc |-> NoExc, fs |-> r.fs, name |-> TempPath(dir, toks[i]),
               tries |-> i, errs |-> <<NoExc>>]
         ELSE IF r.exc = EEXIST
         THEN [MkdirLoop(f, dir, toks, i + 1, by) EXCEPT !.errs = <<EEXIST>> \o @]
         ELSE [exc |-> r.exc, fs |-> f, name |-> NoPath, tries |-> i,
               errs |-> <<r.exc>>]


RECURSIVE OpenLoop(_, _, _, _, _)
OpenLoop(f, dir, toks, i, by) ==
    IF i > TMP_MAX
    THEN [exc |-> NoUsableName, fs |-> f, name |-> NoPath, tries |-> TMP_MAX,
          errs |-> <<>>]
    ELSE LET r == os_open_excl(f, TempPath(dir, toks[i]), by) IN
         IF r.exc = NoExc
         THEN [exc |-> NoExc, fs |-> r.fs, name |-> TempPath(dir, toks[i]),
               tries |-> i, errs |-> <<NoExc>>]
         ELSE IF r.exc = EEXIST
         THEN [OpenLoop(f, dir, toks, i + 1, by) EXCEPT !.errs = <<EEXIST>> \o @]
         ELSE [exc |-> r.exc, fs |-> f, name |-> NoPath, tries |-> i,
               errs |-> <<r.exc>>]

\* the loop trying the next candidate after any error
MkstempRetryingAll(f, dir, toks, by) ==
    LET try(i) == os_open_excl(f, TempPath(dir, toks[i]), by)
        ok == {i \in 1..TMP_MAX : try(i).exc = NoExc}
        n == IF ok = {} THEN TMP_MAX
             ELSE CHOOSE i \in ok : \A j \in ok : i <= j
    IN  [exc |-> IF ok = {} THEN NoUsableName ELSE NoExc,
         fs |-> IF ok = {} THEN f ELSE try(n).fs,
         name |-> IF ok = {} THEN NoPath ELSE TempPath(dir, toks[n]),
         tries |-> n, errs |-> [i \in 1..n |-> try(i).exc]]

\* the loop giving up at the first name that exists
MkstempStoppingEarly(f, dir, toks, by) ==
    IF Exists(f, TempPath(dir, toks[1]))
    THEN [exc |-> NoUsableName, fs |-> f, name |-> NoPath, tries |-> 1,
          errs |-> <<EEXIST>>]
    ELSE OpenLoop(f, dir, toks, 1, by)

\* the loop opening without O_EXCL: a file that exists is taken over
MkstempClobbering(f, dir, toks, by) ==
    LET p == TempPath(dir, toks[1]) IN
    IF Exists(f, p) /\ f[p].kind = "file"
    THEN [exc |-> NoExc, fs |-> Add(f, p, FileEntry(by)), name |-> p,
          tries |-> 1, errs |-> <<NoExc>>]
    ELSE OpenLoop(f, dir, toks, 1, by)

_mkstemp_inner(f, dir, toks, by) == OpenLoop(f, dir, toks, 1, by)

(***************************************************************************)
(* _infer_return_type and _sanitize_params.  An argument is absent         *)
(* ("None"), text ("str") or bytes ("bytes"); a directory argument also    *)
(* carries the path it denotes.                                            *)
(***************************************************************************)
Kinds == {"None", "str", "bytes"}
DirArg(k, p) == [k |-> k, path |-> p]
NoDirArg == DirArg("None", NoPath)
DirArgs == {NoDirArg} \cup {DirArg(k, p) : k \in {"str", "bytes"},
                                              p \in {TmpDir, NoDir, RoDir}}

\* the (prefix, suffix, dir) arguments the calls are tried with: all absent,
\* one domain throughout, the two domains mixed, a directory that is missing,
\* a directory that is write-protected
NamingArgs ==
    {<<"None", "None", NoDirArg>>,
     <<"bytes", "bytes", DirArg("bytes", TmpDir)>>,
     <<"None", "bytes", NoDirArg>>,
     <<"bytes", "None", DirArg("str", TmpDir)>>,
     <<"None", "None", DirArg("str", NoDir)>>,
     <<"None", "None", DirArg("str", RoDir)>>}

RECURSIVE InferLoop(_, _, _)
InferLoop(args, i, return_type) ==
    IF i > Len(args)
    THEN [exc |-> NoExc,
          type |-> IF return_type = "None" THEN "str" ELSE return_type]
    ELSE IF args[i] = "None" THEN InferLoop(args, i + 1, return_type)
    ELSE IF args[i] = "bytes"
         THEN IF return_type = "str" THEN [exc |-> MixedTypes, type |-> "None"]
              ELSE InferLoop(args, i + 1, "bytes")
         ELSE IF return_type = "bytes" THEN [exc |-> MixedTypes, type |-> "None"]
              ELSE InferLoop(args, i + 1, "str")

\* the type of the last argument present, whatever came before it
InferLastWins(args) ==
    LET present == {i \in 1..Len(args) : args[i] # "None"} IN
    [exc |-> NoExc,
     type |-> IF present = {} THEN "str"
              ELSE args[CHOOSE i \in present : \A j \in present : j <= i]]

_infer_return_type(args) == InferLoop(args, 1, "None")

\* the argument lists _infer_return_type is tried with
ArgLists == UNION {[1..n -> Kinds] : n \in 0..MaxArgs}

\* the text of a name component and its type: the caller's prefix "pre" or
\* the default one, the caller's suffix "suf" or the empty default
template == "tmp"
Part(k, v) == [k |-> k, v |-> v]

(***************************************************************************)
(* The state of the program.                                               *)
(***************************************************************************)
VARIABLES
    fs,                \* the file system
    fds,               \* the open file descriptors of the process
    files,             \* the NamedTemporaryFile handles, by slot
    streams,           \* the descriptors of the streams TemporaryFile returned
    dirs,              \* the TemporaryDirectory objects, by slot
    O_TMPFILE_WORKS,   \* the module global _O_TMPFILE_WORKS
    oserrors,          \* whether system calls fail for reasons outside the model
    python,            \* the version of the interpreter that imported the module
    last               \* the last call: its result and the system calls it made

vars == <<fs, fds, files, streams, dirs, O_TMPFILE_WORKS, oserrors, python, last>>

\* descriptors 0..2 are the standard streams
FdLimit == MaxFiles + 1
Fds == 3..(2 + FdLimit)
NoFd == 0
\* the kernel hands out the lowest descriptor number that is not open
NewFd(o) == CHOOSE n \in Fds \ o : \A m \in Fds \ o : n <= m

\* The failures of collaborators that no state of the model explains: a
\* permission or I/O error of unlink, of the flush done by a stream's close,
\* of rmtree.
Faults(points) == IF oserrors THEN SUBSET points ELSE {{}}

\* the interpreters the creating calls are run under: Python 2, and Python 3
\* from 3.5 on
PythonVersions == {"2.7", "3.5"}
\* a Python 3 before 3.5, where the module takes its fallbacks for
\* gettempdirb and mkdtemp
OlderPython3 == "3.4"

\* the random part of a candidate name, drawn by the standard library's
\* _RandomNameSequence: its length and the classes of its characters
RandomName ==
    IF python = "2.7" THEN [len |-> 6, chars |-> {"a-z", "A-Z", "0-9", "_"}]
    ELSE [len |-> 8, chars |-> {"a-z", "0-9", "_"}]

NoName == [dir |-> NoPath, base |-> <<>>, random |-> [len |-> 0, chars |-> {}],
           type |-> "None"]

\* the name with the suffix put where the prefix belongs
JoinSuffixFirst(path, dirk, pre, suf, output_type) ==
    [dir |-> Parent(path), base |-> <<suf.v, path[Len(path)], pre.v>>,
     random |-> RandomName, type |-> output_type]

\* os.path.join(dir, pre + name + suf) for the candidate created at path:
\* Python 3 joins components of one type (the random names are encoded for
\* bytes); Python 2 coerces a mix with unicode to unicode
Join(path, dirk, pre, suf, output_type) ==
    [dir |-> Parent(path), base |-> <<pre.v, path[Len(path)], suf.v>>,
     random |-> RandomName,
     type |-> IF python = "2.7"
              THEN (IF "str" \in {dirk, pre.k, suf.k} THEN "str" ELSE "bytes")
              ELSE IF {dirk, pre.k, suf.k} = {output_type} THEN output_type
              ELSE "TypeError"]

\* _gettempdirb: tempfile.gettempdirb, which exists from Python 3.5 on;
\* before, tempfile.gettempdir, which returns str: the bytes of Python 2,
\* the text of Python 3
_gettempdirb == DirArg(IF python = OlderPython3 THEN "str" ELSE "bytes", TmpDir)

\* _gettempdir: tempfile.gettempdir from Python 3.5 on; before, the result
\* of _gettempdirb() decoded by os.fsdecode or by unicode(), which takes
\* the ASCII name of the model's temporary directory
_gettempdir == DirArg("str", TmpDir)

_sanitize_params(prefix, suffix, dir) ==
    LET t == _infer_return_type(<<prefix, suffix, dir.k>>) IN
    IF t.exc # NoExc
    THEN [exc |-> t.exc, prefix |-> Part(prefix, "pre"),
          suffix |-> Part(suffix, "suf"), dir |-> dir, output_type |-> "None"]
    ELSE [exc |-> NoExc,
          prefix |-> IF prefix = "None" THEN Part(t.type, template)
                     ELSE Part(prefix, "pre"),
          suffix |-> IF suffix = "None" THEN Part(t.type, "")
                     ELSE Part(suffix, "suf"),
          dir |-> IF dir.k = "None"
                  THEN (IF t.type = "str" THEN _gettempdir ELSE _gettempdirb)
                  ELSE dir,
          output_type |-> t.type]

\* The record of a call: the error it raised, what it returned, the calls
\* it made of the system and the library (log) and what each of them raised
\* (errs), the name it built, the naming arguments it was given (asked).
Call(op, obj, exc, ret, fd, log) ==
    [op |-> op, obj |-> obj, exc |-> exc, ret |-> ret, fd |-> fd, log |-> log,
     errs |-> [i \in 1..Len(log) |-> NoExc], name |-> NoName, asked |-> <<>>,
     removed |-> {}, arg |-> NoPath]
\* the entries a call removed from the file system f
Removed(f, g) == {[path |-> q, kind |-> f[q].kind, to |-> f[q].to] :
                  q \in (DOMAIN f) \ (DOMAIN g)}
Count(log, call) == Cardinality({i \in 1..Len(log) : log[i] = call})

\* an unlink that removes nothing and reports success
UnlinkNothing(f, p, flt) == [exc |-> NoExc, fs |-> f]

\* os.unlink(p) as the module calls it
Unlink(f, p, flt) ==
    IF "unlink" \in flt THEN [exc |-> EACCES, fs |-> f] ELSE os_unlink(f, p)

\* io.open(fd, mode, ...): fails on a mode it does not accept
Modes == {"w+b", "wr"}
io_open(mode) == IF mode = "w+b" THEN NoExc ELSE BadMode

(***************************************************************************)
(* _TemporaryFileCloser and _TemporaryFileWrapper.  One record holds the   *)
(* wrapper, its closer and the stream they share.                          *)
(***************************************************************************)
NoFile ==
    [st |-> "none", name |-> NoPath, delete |-> FALSE,
     fd |-> NoFd, closed |-> FALSE, close_called |-> FALSE, held |-> FALSE,
     inscope |-> FALSE, nclose |-> 0, unlinks |-> 0, fdcloses |-> 0,
     methods |-> {}, cache |-> {}, pins |-> {}, backrefs |-> {},
     iter |-> "none", pos |-> 0]

\* _TemporaryFileWrapper.__init__ and _TemporaryFileCloser.__init__
NewFile(name, delete, fd) ==
    [NoFile EXCEPT !.st = "live", !.name = name, !.delete = delete,
                   !.fd = fd, !.held = TRUE]

\* file.close() of the stream: a closed stream ignores it; an open one
\* flushes, then closes its descriptor whether or not the flush failed
StreamClose(r, o, flt) ==
    IF r.closed THEN [file |-> r, fds |-> o, exc |-> NoExc, log |-> <<>>]
    ELSE [file |-> [r EXCEPT !.closed = TRUE, !.fdcloses = Inc(@)],
          fds |-> o \ {r.fd},
          exc |-> IF "flush" \in flt THEN EIO ELSE NoExc,
          log |-> <<"close">>]

\* the body of close without the try/finally: an error of the stream's
\* close leaves before the unlink
CloseThenUnlink(r, f, o, flt) ==
    LET c == StreamClose([r EXCEPT !.close_called = TRUE], o, flt)
        u == Unlink(f, r.name, flt)
    IN  IF r.delete /\ c.exc = NoExc
        THEN [file |-> [c.file EXCEPT !.unlinks = Inc(@)], fs |-> u.fs,
              fds |-> c.fds, exc |-> u.exc, log |-> c.log \o <<"unlink">>]
        ELSE [file |-> c.file, fs |-> f, fds |-> c.fds, exc |-> c.exc,
              log |-> c.log]

\* the body of _TemporaryFileCloser.close once the guard has passed:
\* close_called is set, the stream is closed and, in the finally clause,
\* the name is unlinked when delete is set; an error of the unlink replaces
\* the one of the stream's close
CloseAndUnlink(r, f, o, flt) ==
    LET c == StreamClose([r EXCEPT !.close_called = TRUE], o, flt)
        u == Unlink(f, r.name, flt)
    IN  IF r.delete
        THEN [file |-> [c.file EXCEPT !.unlinks = Inc(@)], fs |-> u.fs,
              fds |-> c.fds,
              exc |-> IF u.exc # NoExc THEN u.exc ELSE c.exc,
              log |-> c.log \o <<"unlink">>]
        ELSE [file |-> c.file, fs |-> f, fds |-> c.fds, exc |-> c.exc,
              log |-> c.log]

\* close with the close_called guard left out
CloserCloseUnguarded(r, f, o, flt) == CloseAndUnlink(r, f, o, flt)

\* close unlinking the name whatever the delete flag says
CloserCloseAlwaysUnlink(r, f, o, flt) ==
    IF ~r.close_called
    THEN [CloseAndUnlink([r EXCEPT !.delete = TRUE], f, o, flt)
            EXCEPT !.file.delete = r.delete]
    ELSE [file |-> r, fs |-> f, fds |-> o, exc |-> NoExc, log |-> <<>>]

\* _TemporaryFileCloser.close (os.name # 'nt'); self.file is never None
\* once __init__ has run
CloserClose(r, f, o, flt) ==
    IF ~r.close_called
    THEN CloseAndUnlink(r, f, o, flt)
    ELSE [file |-> r, fs |-> f, fds |-> o, exc |-> NoExc, log |-> <<>>]

Opens(n) == [i \in 1..n |-> "open"]

\* NamedTemporaryFile(mode, suffix, prefix, dir, delete) called for slot h;
\* a _mkstemp_inner that does not take output_type (Python 2) is called
\* again without it
NamedTemporaryFileCall(h, prefix, suffix, dir, delete, mode, toks, flt) ==
    LET sp == _sanitize_params(prefix, suffix, dir)
        mk == _mkstemp_inner(fs, sp.dir.path, toks, ByFile(h))
        fd == NewFd(fds)
        io == io_open(mode)
        u == Unlink(mk.fs, mk.name, flt)
        op == "NamedTemporaryFile"
    IN  IF sp.exc # NoExc
        THEN [fs |-> fs, fds |-> fds, file |-> NoFile,
              call |-> Call(op, h, sp.exc, NoPath, NoFd, <<>>)]
        ELSE IF mk.exc # NoExc
        THEN [fs |-> fs, fds |-> fds, file |-> NoFile,
              call |-> [Call(op, h, mk.exc, NoPath, NoFd, Opens(mk.tries))
                          EXCEPT !.errs = mk.errs]]
        ELSE IF io = NoExc
        THEN [fs |-> mk.fs, fds |-> fds \cup {fd},
              file |-> NewFile(mk.name, delete, fd),
              call |-> [Call(op, h, NoExc, mk.name, fd,
                             Opens(mk.tries) \o <<"io.open">>)
                          EXCEPT !.errs = mk.errs \o <<NoExc>>,
                                 !.name = Join(mk.name, sp.dir.k, sp.prefix,
                                               sp.suffix, sp.output_type)]]
        \* except BaseException: _os.unlink(name); _os.close(fd); raise
        ELSE IF u.exc # NoExc
        THEN [fs |-> u.fs, fds |-> fds \cup {fd}, file |-> NoFile,
              call |-> [Call(op, h, u.exc, NoPath, fd,
                             Opens(mk.tries) \o <<"io.open", "unlink">>)
                          EXCEPT !.errs = mk.errs \o <<io, u.exc>>]]
        ELSE [fs |-> u.fs, fds |-> fds, file |-> NoFile,
              call |-> [Call(op, h, io, NoPath, fd,
                             Opens(mk.tries) \o <<"io.open", "unlink", "close">>)
                          EXCEPT !.errs = mk.errs \o <<io, NoExc, NoExc>>]]

NamedTemporaryFile(h) ==
    /\ files[h].st = "none"
    /\ Cardinality(fds) < FdLimit
    /\ \E a \in NamingArgs, delete \in BOOLEAN, mode \in Modes,
          toks \in TokenDraws, flt \in Faults({"unlink"}) :
          \E r \in {NamedTemporaryFileCall(h, a[1], a[2], a[3], delete, mode,
                                          toks, flt)} :
              /\ fs' = r.fs
              /\ fds' = r.fds
              /\ files' = [files EXCEPT ![h] = r.file]
              /\ last' = [r.call EXCEPT !.asked = a]
    /\ UNCHANGED <<streams, dirs, O_TMPFILE_WORKS, oserrors, python>>

\* _TemporaryFileWrapper.close
FileClose(h) ==
    /\ files[h].st = "live"
    /\ files[h].held
    /\ \E flt \in Faults({"unlink", "flush"}) :
          \E r \in {CloserClose(files[h], fs, fds, flt)} :
              /\ fs' = r.fs
              /\ fds' = r.fds
              /\ files' = [files EXCEPT ![h] = [r.file EXCEPT !.nclose = Inc(@)]]
              /\ last' = Call("file.close", h, r.exc, NoPath, NoFd, r.log)
    /\ UNCHANGED <<streams, dirs, O_TMPFILE_WORKS, oserrors, python>>

\* _TemporaryFileWrapper.__enter__: the stream's __enter__ refuses a closed
\* stream
FileEnter(h) ==
    /\ files[h].st = "live"
    /\ files[h].held
    /\ ~files[h].inscope
    /\ files' = [files EXCEPT ![h].inscope = ~files[h].closed]
    /\ last' = Call("file.__enter__", h,
                    IF files[h].closed THEN Err("ValueError", "none") ELSE NoExc,
                    NoPath, NoFd, <<>>)
    /\ UNCHANGED <<fs, fds, streams, dirs, O_TMPFILE_WORKS, oserrors, python>>

\* __exit__ leaving the file to the stream's __exit__ alone
WrapperExitStreamOnly(r, f, o, flt) ==
    LET x == StreamClose(r, o, flt) IN
    [file |-> x.file, fs |-> f, fds |-> x.fds, exc |-> x.exc, log |-> x.log]

\* _TemporaryFileWrapper.__exit__: the stream's __exit__ closes the stream;
\* when that raises, self.close() is not reached; nclose counts the calls
\* of the wrapper's close()
WrapperExit(r, f, o, flt) ==
    LET x == StreamClose(r, o, flt)
        c == CloserClose(x.file, f, x.fds, flt)
    IN  IF x.exc # NoExc
        THEN [file |-> x.file, fs |-> f, fds |-> x.fds, exc |-> x.exc,
              log |-> x.log]
        ELSE [file |-> [c.file EXCEPT !.nclose = Inc(@)], fs |-> c.fs,
              fds |-> c.fds, exc |-> c.exc, log |-> x.log \o c.log]

FileExit(h) ==
    /\ files[h].st = "live"
    /\ files[h].inscope
    /\ \E flt \in Faults({"unlink", "flush"}) :
          \E r \in {WrapperExit(files[h], fs, fds, flt)} :
              /\ fs' = r.fs
              /\ fds' = r.fds
              /\ files' = [files EXCEPT ![h] = [r.file EXCEPT !.inscope = FALSE]]
              /\ last' = Call("file.__exit__", h, r.exc, NoPath, NoFd, r.log)
    /\ UNCHANGED <<streams, dirs, O_TMPFILE_WORKS, oserrors, python>>

\* The attributes of the stream looked up through the wrapper.  In a file
\* record, methods holds the names whose func_wrapper the caller refers to,
\* cache the names stored in the wrapper's __dict__, pins the names of the
\* func_wrappers alive that carry _closer, backrefs those that refer to the
\* wrapper itself.  iter is the iterator the caller got from the wrapper:
\* "generator", the generator of __iter__, whose frame holds self, or
\* "stream", the stream as its own iterator; pos counts the lines read.
MethodNames == {"write"}

\* the wrapper is referred to by the caller, by a func_wrapper or by the
\* frame of a generator of __iter__
WrapperAlive(r) == r.held \/ r.backrefs # {} \/ r.iter = "generator"

\* a wrapper nothing refers to is reclaimed, and with it the func_wrappers
\* only its __dict__ held
Reclaim(r) ==
    IF WrapperAlive(r) THEN r
    ELSE [r EXCEPT !.cache = {}, !.pins = @ \cap r.methods]
\* the closer is referred to by the wrapper or by a func_wrapper
CloserAlive(r) == WrapperAlive(r) \/ r.pins # {}

\* attribute lookup returning the stream's bound method as it is
GetAttrBare(r, name) ==
    [r EXCEPT !.methods = @ \cup {name}, !.cache = @ \cup {name}]

\* wrapper.<name> for a method of the stream: a name already in the
\* wrapper's __dict__ is found there; otherwise __getattr__ builds a
\* func_wrapper around the stream's method, stores the closer in it and
\* caches it with setattr
__getattr__(r, name) ==
    IF name \in r.cache
    THEN [r EXCEPT !.methods = @ \cup {name}]
    ELSE [r EXCEPT !.methods = @ \cup {name}, !.cache = @ \cup {name},
                   !.pins = @ \cup {name}]

\* m = f.<name>
FileGetAttr(h) ==
    /\ files[h].st = "live"
    /\ files[h].held
    /\ \E name \in MethodNames \ files[h].methods :
          files' = [files EXCEPT ![h] = __getattr__(files[h], name)]
    /\ last' = Call("file.__getattr__", h, NoExc, NoPath, NoFd, <<>>)
    /\ UNCHANGED <<fs, fds, streams, dirs, O_TMPFILE_WORKS, oserrors, python>>

\* m(...): func_wrapper calls the stream's method, which refuses a closed
\* stream
FileCallMethod(h) ==
    /\ files[h].st \in {"live", "gone"}
    /\ \E name \in files[h].methods :
          last' = [Call("file.method", h,
                        IF files[h].closed THEN Err("ValueError", "none")
                        ELSE NoExc,
                        NoPath, files[h].fd, <<>>)
                     EXCEPT !.arg = <<name>>]
    /\ UNCHANGED <<fs, fds, files, streams, dirs, O_TMPFILE_WORKS, oserrors, python>>

\* del m: a func_wrapper the wrapper's __dict__ no longer holds is gone
\* with the caller's reference
FileDropMethod(h) ==
    /\ files[h].st \in {"live", "gone"}
    /\ \E name \in files[h].methods :
          files' = [files EXCEPT ![h] =
                      IF WrapperAlive(files[h])
                      THEN [@ EXCEPT !.methods = @ \ {name}]
                      ELSE [@ EXCEPT !.methods = @ \ {name},
                                     !.pins = @ \ {name}]]
    /\ last' = Call("method.del", h, NoExc, NoPath, NoFd, <<>>)
    /\ UNCHANGED <<fs, fds, streams, dirs, O_TMPFILE_WORKS, oserrors, python>>

\* the caller drops its reference to the wrapper: a wrapper nothing else
\* refers to is reclaimed, and with it the func_wrappers only its __dict__
\* held
FileDrop(h) ==
    /\ files[h].st = "live"
    /\ files[h].held
    /\ ~files[h].inscope
    /\ files' = [files EXCEPT ![h] = Reclaim([@ EXCEPT !.held = FALSE])]
    /\ last' = Call("file.del", h, NoExc, NoPath, NoFd, <<>>)
    /\ UNCHANGED <<fs, fds, streams, dirs, O_TMPFILE_WORKS, oserrors, python>>

\* the lines the caller wrote to the file before iterating
Lines == <<"spam", "eggs">>

\* __iter__ returning iter(self.file): the stream is its own iterator
IterOfStream(r) == [r EXCEPT !.iter = "stream"]

\* _TemporaryFileWrapper.__iter__: a generator; nothing of its body runs
\* before the first next()
__iter__(r) == [r EXCEPT !.iter = "generator"]

\* it = iter(f)
FileIter(h) ==
    /\ files[h].st = "live"
    /\ files[h].held
    /\ files[h].iter = "none"
    /\ files' = [files EXCEPT ![h] = __iter__(files[h])]
    /\ last' = Call("file.__iter__", h, NoExc, NoPath, NoFd, <<>>)
    /\ UNCHANGED <<fs, fds, streams, dirs, O_TMPFILE_WORKS, oserrors, python>>

\* next(it): the loop over self.file yields the stream's next line; a closed
\* stream raises ValueError and the end of the stream ends the loop, and
\* either way the generator has finished and its frame is released
IterNext(h) ==
    /\ files[h].st \in {"live", "gone"}
    /\ files[h].iter # "none"
    /\ LET r == files[h] IN
       IF r.closed
       THEN /\ files' = [files EXCEPT ![h] = Reclaim([r EXCEPT !.iter = "none"])]
            /\ last' = Call("iter.next", h, Err("ValueError", "none"), NoPath,
                            NoFd, <<>>)
       ELSE IF r.pos < Len(Lines)
       THEN /\ files' = [files EXCEPT ![h].pos = r.pos + 1]
            /\ last' = [Call("iter.next", h, NoExc, NoPath, NoFd, <<>>)
                          EXCEPT !.arg = <<Lines[r.pos + 1]>>]
       ELSE /\ files' = [files EXCEPT ![h] = Reclaim([r EXCEPT !.iter = "none"])]
            /\ last' = Call("iter.next", h, Err("StopIteration", "none"), NoPath,
                            NoFd, <<>>)
    /\ UNCHANGED <<fs, fds, streams, dirs, O_TMPFILE_WORKS, oserrors, python>>

\* del it before the end: GeneratorExit is raised at the yield and leaves
\* the loop; nothing is called on the stream
IterDrop(h) ==
    /\ files[h].st \in {"live", "gone"}
    /\ files[h].iter # "none"
    /\ files' = [files EXCEPT ![h] = Reclaim([@ EXCEPT !.iter = "none"])]
    /\ last' = Call("iter.del", h, NoExc, NoPath, NoFd, <<>>)
    /\ UNCHANGED <<fs, fds, streams, dirs, O_TMPFILE_WORKS, oserrors, python>>

\* a closer reclaimed without a __del__ that closes
CloserDelNothing(h) ==
    /\ files[h].st = "live"
    /\ ~CloserAlive(files[h])
    /\ files' = [files EXCEPT ![h].st = "gone"]
    /\ last' = Call("closer.__del__", h, NoExc, NoPath, NoFd, <<>>)
    /\ UNCHANGED <<fs, fds, streams, dirs, O_TMPFILE_WORKS, oserrors, python>>

\* _TemporaryFileCloser.__del__, once the closer is unreachable; an error
\* raised in __del__ does not propagate.
CloserDel(h) ==
    /\ files[h].st = "live"
    /\ ~CloserAlive(files[h])
    /\ \E flt \in Faults({"unlink", "flush"}) :
          \E r \in {CloserClose(files[h], fs, fds, flt)} :
              /\ fs' = r.fs
              /\ fds' = r.fds
              /\ files' = [files EXCEPT ![h] = [r.file EXCEPT !.st = "gone"]]
              /\ last' = Call("closer.__del__", h, NoExc, NoPath, NoFd, r.log)
    /\ UNCHANGED <<streams, dirs, O_TMPFILE_WORKS, oserrors, python>>

(***************************************************************************)
(* TemporaryFile (POSIX, not Cygwin).  otmp is what os.open(dir,           *)
(* O_TMPFILE) does on this kernel and file system: it works, it raises     *)
(* IsADirectoryError (the flag is read as O_DIRECTORY), or it raises       *)
(* another OSError (unsupported).                                          *)
(***************************************************************************)
OTmpOutcomes == {"ok", "IsADirectoryError", "OSError"}
EOPNOTSUPP == Err("OSError", "EOPNOTSUPP")

\* os.open(dir, (flags | O_TMPFILE) & ~O_CREAT, 0o600): what it raises
os_open_tmpfile(f, dir, otmp) ==
    IF ~Exists(f, dir) THEN ENOENT
    ELSE IF ~IsDir(f, dir) THEN ENOTDIR
    ELSE IF otmp = "IsADirectoryError" THEN EISDIR
    ELSE IF dir = RoDir THEN EACCES
    ELSE IF otmp = "OSError" THEN EOPNOTSUPP
    ELSE NoExc

\* the except clauses leaving _O_TMPFILE_WORKS as it is
WorksAfterAnyError(t) == TRUE

\* _O_TMPFILE_WORKS after os.open(dir, O_TMPFILE) raised t: the handler of
\* IsADirectoryError clears it, the handler of any other OSError passes
WorksAfterProbe(t) == t # EISDIR

\* the fallback of TemporaryFile: _mkstemp_inner, unlink, io.open; pre and
\* perrs are the calls made before it and what they raised
TemporaryFileFallback(prefix, suffix, dir, mode, toks, flt, works, pre, perrs) ==
    LET mk == _mkstemp_inner(fs, dir, toks, ByAnon)
        fd == NewFd(fds)
        u == Unlink(mk.fs, mk.name, flt)
        io == io_open(mode)
        op == "TemporaryFile"
        log == pre \o Opens(mk.tries)
        errs == perrs \o mk.errs
    IN  IF mk.exc # NoExc
        THEN [fs |-> fs, fds |-> fds, streams |-> streams, works |-> works,
              call |-> [Call(op, 0, mk.exc, NoPath, NoFd, log)
                          EXCEPT !.errs = errs]]
        \* except: _os.close(fd); raise
        ELSE IF u.exc # NoExc
        THEN [fs |-> u.fs, fds |-> fds, streams |-> streams, works |-> works,
              call |-> [Call(op, 0, u.exc, NoPath, fd,
                             log \o <<"unlink", "close">>)
                          EXCEPT !.errs = errs \o <<u.exc, NoExc>>]]
        ELSE IF io # NoExc
        THEN [fs |-> u.fs, fds |-> fds, streams |-> streams, works |-> works,
              call |-> [Call(op, 0, io, NoPath, fd,
                             log \o <<"unlink", "io.open", "close">>)
                          EXCEPT !.errs = errs \o <<NoExc, io, NoExc>>]]
        ELSE [fs |-> u.fs, fds |-> fds \cup {fd}, streams |-> streams \cup {fd},
              works |-> works,
              call |-> [Call(op, 0, NoExc, NoPath, fd,
                             log \o <<"unlink", "io.open">>)
                          EXCEPT !.errs = errs \o <<NoExc, NoExc>>]]

\* the else branch with the descriptor left open when io.open fails
OpenAnonymousLeaking(mode) ==
    LET fd == NewFd(fds)
        io == io_open(mode)
    IN  [fs |-> fs, fds |-> fds \cup {fd},
         streams |-> IF io = NoExc THEN streams \cup {fd} ELSE streams,
         works |-> TRUE,
         call |-> Call("TemporaryFile", 0, io, NoPath, fd,
                       <<"open(O_TMPFILE)", "io.open">>)]

\* the else branch of the O_TMPFILE attempt: io.open over the descriptor;
\* except: _os.close(fd); raise
OpenAnonymous(mode) ==
    LET fd == NewFd(fds)
        io == io_open(mode)
    IN  IF io = NoExc
        THEN [fs |-> fs, fds |-> fds \cup {fd}, streams |-> streams \cup {fd},
              works |-> TRUE,
              call |-> Call("TemporaryFile", 0, NoExc, NoPath, fd,
                            <<"open(O_TMPFILE)", "io.open">>)]
        ELSE [fs |-> fs, fds |-> fds, streams |-> streams, works |-> TRUE,
              call |-> [Call("TemporaryFile", 0, io, NoPath, fd,
                             <<"open(O_TMPFILE)", "io.open", "close">>)
                          EXCEPT !.errs = <<NoExc, io, NoExc>>]]

\* TemporaryFile(mode, suffix, prefix, dir)
TemporaryFileCall(prefix, suffix, dir, mode, otmp, toks, flt) ==
    LET sp == _sanitize_params(prefix, suffix, dir)
        t == os_open_tmpfile(fs, sp.dir.path, otmp)
    IN  IF sp.exc # NoExc
        THEN [fs |-> fs, fds |-> fds, streams |-> streams,
              works |-> O_TMPFILE_WORKS,
              call |-> Call("TemporaryFile", 0, sp.exc, NoPath, NoFd, <<>>)]
        ELSE IF O_TMPFILE_WORKS /\ t = NoExc THEN OpenAnonymous(mode)
        \* IsADirectoryError clears _O_TMPFILE_WORKS, another OSError does not
        ELSE IF O_TMPFILE_WORKS
        THEN TemporaryFileFallback(sp.prefix, sp.suffix, sp.dir.path, mode, toks,
                                   flt, WorksAfterProbe(t), <<"open(O_TMPFILE)">>,
                                   <<t>>)
        ELSE TemporaryFileFallback(sp.prefix, sp.suffix, sp.dir.path, mode, toks,
                                   flt, FALSE, <<>>, <<>>)

TemporaryFile ==
    /\ Cardinality(fds) < FdLimit
    /\ \E a \in NamingArgs, mode \in Modes, otmp \in OTmpOutcomes,
          toks \in TokenDraws, flt \in Faults({"unlink"}) :
          \E r \in {TemporaryFileCall(a[1], a[2], a[3], mode, otmp, toks, flt)} :
              /\ fs' = r.fs
              /\ fds' = r.fds
              /\ streams' = r.streams
              /\ O_TMPFILE_WORKS' = r.works
              /\ last' = [r.call EXCEPT !.asked = a]
    /\ UNCHANGED <<files, dirs, oserrors, python>>

\* the caller closes a stream TemporaryFile returned
StreamCloseAnon(fd) ==
    /\ fd \in streams
    /\ streams' = streams \ {fd}
    /\ fds' = fds \ {fd}
    /\ last' = Call("stream.close", 0, NoExc, NoPath, fd, <<"close">>)
    /\ UNCHANGED <<fs, files, dirs, O_TMPFILE_WORKS, oserrors, python>>

(***************************************************************************)
(* TemporaryDirectory.  finalizer is the weakref.finalize object: alive    *)
(* until it is detached or called, holding the name it was given.          *)
(***************************************************************************)
NoDirObj ==
    [st |-> "none", name |-> NoPath, finalizer |-> [alive |-> FALSE, name |-> NoPath],
     held |-> FALSE, inscope |-> FALSE, ncleanup |-> 0,
     rm_cleanup |-> 0, rm_finalizer |-> 0, warned |-> 0]

\* shutil.rmtree(p) as the module calls it
Rmtree(f, p, flt) ==
    IF "rmtree" \in flt THEN [exc |-> EACCES, fs |-> f] ELSE _rmtree(f, p)

\* mkdtemp(suffix, prefix, dir): the standard library's from Python 3.5 on;
\* before, the wrapper that hands the arguments given to the older mkdtemp,
\* which checks no types and has its own defaults
mkdtemp(f, suffix, prefix, dir, toks, by) ==
    LET sp == IF python # "3.5"
              THEN [exc |-> NoExc,
                    prefix |-> IF prefix = "None"
                               THEN Part(_gettempdirb.k, template)
                               ELSE Part(prefix, "pre"),
                    suffix |-> IF suffix = "None" THEN Part(_gettempdirb.k, "")
                               ELSE Part(suffix, "suf"),
                    dir |-> IF dir.k = "None" THEN _gettempdirb ELSE dir,
                    output_type |-> "None"]
              ELSE _sanitize_params(prefix, suffix, dir)
        mk == MkdirLoop(f, sp.dir.path, toks, 1, by)
    IN  IF sp.exc # NoExc
        THEN [exc |-> sp.exc, fs |-> f, name |-> NoPath, tries |-> 0,
              errs |-> <<>>, parts |-> NoName]
        ELSE [exc |-> mk.exc, fs |-> mk.fs, name |-> mk.name, tries |-> mk.tries,
              errs |-> mk.errs,
              parts |-> IF mk.exc # NoExc THEN NoName
                        ELSE Join(mk.name, sp.dir.k, sp.prefix, sp.suffix,
                                  sp.output_type)]

Mkdirs(n) == [i \in 1..n |-> "mkdir"]

\* __init__ registering the finalizer before mkdtemp has returned a name
DirInitEarlyFinalizer(d, suffix, prefix, dir, toks) ==
    LET mk == mkdtemp(fs, suffix, prefix, dir, toks, ByDir(d)) IN
    [fs |-> mk.fs,
     dir |-> [NoDirObj EXCEPT !.st = IF mk.exc = NoExc THEN "live" ELSE "none",
                              !.name = mk.name,
                              !.finalizer = [alive |-> TRUE, name |-> mk.name],
                              !.held = (mk.exc = NoExc)],
     call |-> [Call("TemporaryDirectory", d, mk.exc, mk.name, NoFd, Mkdirs(mk.tries))
                 EXCEPT !.arg = dir.path]]

\* TemporaryDirectory.__init__: nothing is registered when mkdtemp raises
DirInit(d, suffix, prefix, dir, toks) ==
    LET mk == mkdtemp(fs, suffix, prefix, dir, toks, ByDir(d)) IN
    IF mk.exc # NoExc
    THEN [fs |-> fs, dir |-> NoDirObj,
          call |-> [Call("TemporaryDirectory", d, mk.exc, NoPath, NoFd,
                         Mkdirs(mk.tries))
                      EXCEPT !.arg = dir.path, !.errs = mk.errs]]
    ELSE [fs |-> mk.fs,
          dir |-> [NoDirObj EXCEPT !.st = "live", !.name = mk.name,
                                   !.finalizer = [alive |-> TRUE, name |-> mk.name],
                                   !.held = TRUE],
          call |-> [Call("TemporaryDirectory", d, NoExc, mk.name, NoFd,
                         Mkdirs(mk.tries))
                      EXCEPT !.arg = dir.path, !.errs = mk.errs,
                             !.name = mk.parts]]

TemporaryDirectory(d) ==
    /\ dirs[d].st = "none"
    /\ \E a \in NamingArgs, toks \in TokenDraws :
          \E r \in {DirInit(d, a[2], a[1], a[3], toks)} :
              /\ fs' = r.fs
              /\ dirs' = [dirs EXCEPT ![d] = r.dir]
              /\ last' = [r.call EXCEPT !.asked = <<a[1], a[2], a[3]>>]
    /\ UNCHANGED <<fds, files, streams, O_TMPFILE_WORKS, oserrors, python>>

\* cleanup removing the tree without asking the finalizer
CleanupNoDetach(r, f, flt) ==
    LET rm == Rmtree(f, r.name, flt) IN
    [dir |-> [r EXCEPT !.rm_cleanup = Inc(@)], fs |-> rm.fs, exc |-> rm.exc,
     log |-> <<"rmtree">>]

\* cleanup removing the tree and leaving the finalizer alive
CleanupKeepFinalizer(r, f, flt) ==
    LET rm == Rmtree(f, r.name, flt) IN
    IF r.finalizer.alive /\ r.rm_cleanup = 0
    THEN [dir |-> [r EXCEPT !.rm_cleanup = Inc(@)], fs |-> rm.fs, exc |-> rm.exc,
          log |-> <<"rmtree">>]
    ELSE [dir |-> r, fs |-> f, exc |-> NoExc, log |-> <<>>]

\* cleanup detaching the finalizer only once the tree is removed
CleanupDetachAfter(r, f, flt) ==
    LET rm == Rmtree(f, r.name, flt) IN
    IF r.finalizer.alive
    THEN [dir |-> [r EXCEPT !.finalizer.alive = (rm.exc # NoExc),
                            !.rm_cleanup = Inc(@)],
          fs |-> rm.fs, exc |-> rm.exc, log |-> <<"rmtree">>]
    ELSE [dir |-> r, fs |-> f, exc |-> NoExc, log |-> <<>>]

\* TemporaryDirectory.cleanup: detach() answers whether the finalizer was
\* alive and kills it
Cleanup(r, f, flt) ==
    LET rm == Rmtree(f, r.name, flt) IN
    IF r.finalizer.alive
    THEN [dir |-> [r EXCEPT !.finalizer.alive = FALSE, !.rm_cleanup = Inc(@)],
          fs |-> rm.fs, exc |-> rm.exc, log |-> <<"rmtree">>]
    ELSE [dir |-> r, fs |-> f, exc |-> NoExc, log |-> <<>>]

DirCleanup(d) ==
    /\ dirs[d].st = "live"
    /\ dirs[d].held
    /\ \E flt \in Faults({"rmtree"}) :
          \E r \in {Cleanup(dirs[d], fs, flt)} :
              /\ fs' = r.fs
              /\ dirs' = [dirs EXCEPT ![d] = [r.dir EXCEPT !.ncleanup = Inc(@)]]
              /\ last' = [Call("dir.cleanup", d, r.exc, NoPath, NoFd, r.log)
                            EXCEPT !.removed = Removed(fs, r.fs)]
    /\ UNCHANGED <<fds, files, streams, O_TMPFILE_WORKS, oserrors, python>>

\* TemporaryDirectory.__enter__
DirEnter(d) ==
    /\ dirs[d].st = "live"
    /\ dirs[d].held
    /\ ~dirs[d].inscope
    /\ dirs' = [dirs EXCEPT ![d].inscope = TRUE]
    /\ last' = Call("dir.__enter__", d, NoExc, dirs[d].name, NoFd, <<>>)
    /\ UNCHANGED <<fs, fds, files, streams, O_TMPFILE_WORKS, oserrors, python>>

\* __exit__ cleaning up only when the block ended without an error
ExitSkippingOnError(r, f, flt, error) ==
    IF error THEN [dir |-> r, fs |-> f, exc |-> NoExc, log |-> <<>>]
    ELSE Cleanup(r, f, flt)

\* TemporaryDirectory.__exit__(exc, value, tb); error says whether the
\* block ended by raising
Exit(r, f, flt, error) == Cleanup(r, f, flt)

DirExit(d) ==
    /\ dirs[d].st = "live"
    /\ dirs[d].inscope
    /\ \E flt \in Faults({"rmtree"}), error \in BOOLEAN :
          \E r \in {Exit(dirs[d], fs, flt, error)} :
              /\ fs' = r.fs
              /\ dirs' = [dirs EXCEPT ![d] = [r.dir EXCEPT !.inscope = FALSE]]
              /\ last' = [Call(IF error THEN "dir.__exit__ on error"
                                        ELSE "dir.__exit__",
                               d, r.exc, NoPath, NoFd, r.log)
                            EXCEPT !.removed = Removed(fs, r.fs)]
    /\ UNCHANGED <<fds, files, streams, O_TMPFILE_WORKS, oserrors, python>>

\* the caller drops its last reference to the object
DirDrop(d) ==
    /\ dirs[d].st = "live"
    /\ dirs[d].held
    /\ ~dirs[d].inscope
    /\ dirs' = [dirs EXCEPT ![d].held = FALSE]
    /\ last' = Call("dir.del", d, NoExc, NoPath, NoFd, <<>>)
    /\ UNCHANGED <<fs, fds, files, streams, O_TMPFILE_WORKS, oserrors, python>>

\* the caller assigns another path to the name attribute of the object
DirSetName(d) ==
    /\ dirs[d].st = "live"
    /\ dirs[d].held
    /\ \E p \in ({ExtDir} \cup TempPaths) \ {dirs[d].name} :
          /\ dirs' = [dirs EXCEPT ![d].name = p]
          /\ last' = [Call("dir.name=", d, NoExc, NoPath, NoFd, <<>>)
                        EXCEPT !.arg = p]
    /\ UNCHANGED <<fs, fds, files, streams, O_TMPFILE_WORKS, oserrors, python>>

\* a callback that looks the name up in the object when it runs
FinalizerCallbackOfName(r, f, flt) ==
    LET rm == Rmtree(f, r.name, flt) IN
    IF rm.exc # NoExc
    THEN [dir |-> [r EXCEPT !.rm_finalizer = Inc(@)], fs |-> rm.fs,
          log |-> <<"rmtree">>]
    ELSE [dir |-> [r EXCEPT !.rm_finalizer = Inc(@), !.warned = Inc(@)],
          fs |-> rm.fs, log |-> <<"rmtree", "warn">>]

\* _cleanup without the warning
FinalizerCallbackSilent(r, f, flt) ==
    LET rm == Rmtree(f, r.finalizer.name, flt) IN
    [dir |-> [r EXCEPT !.rm_finalizer = Inc(@)], fs |-> rm.fs,
     log |-> <<"rmtree">>]

\* TemporaryDirectory._cleanup(name, warn_message), the finalizer's
\* callback: the warning follows a removal that did not raise
FinalizerCallback(r, f, flt) ==
    LET rm == Rmtree(f, r.finalizer.name, flt) IN
    IF rm.exc # NoExc
    THEN [dir |-> [r EXCEPT !.rm_finalizer = Inc(@)], fs |-> rm.fs,
          log |-> <<"rmtree">>]
    ELSE [dir |-> [r EXCEPT !.rm_finalizer = Inc(@), !.warned = Inc(@)],
          fs |-> rm.fs, log |-> <<"rmtree", "warn">>]

\* the object is collected: a finalizer still alive is called, once; an
\* error of its callback does not propagate
DirFinalize(d) ==
    /\ dirs[d].st = "live"
    /\ ~dirs[d].held
    /\ \E flt \in Faults({"rmtree"}) :
          \E r \in {IF dirs[d].finalizer.alive
                    THEN FinalizerCallback(dirs[d], fs, flt)
                    ELSE [dir |-> dirs[d], fs |-> fs, log |-> <<>>]} :
              /\ fs' = r.fs
              /\ dirs' = [dirs EXCEPT ![d] = [r.dir EXCEPT !.st = "gone",
                                                          !.finalizer.alive = FALSE]]
              /\ last' = [Call("finalize", d, NoExc, NoPath, NoFd, r.log)
                            EXCEPT !.removed = Removed(fs, r.fs)]
    /\ UNCHANGED <<fds, files, streams, O_TMPFILE_WORKS, oserrors, python>>

\* a finalizer registered with atexit off: the exit leaves it alone
AtExitDisabled(r, f, flt) ==
    [dir |-> [r EXCEPT !.st = "gone"], fs |-> f, log |-> <<>>, errs |-> <<>>]

\* what the exit of the interpreter does to one object: finalize was
\* called with its default atexit=True, so a finalizer still alive is
\* called, whether or not the object is referred to, before any module is
\* torn down; errs holds what rmtree and the warning raised
AtExit(r, f, flt) ==
    IF r.st = "live" /\ r.finalizer.alive
    THEN LET c == FinalizerCallback(r, f, flt) IN
         [dir |-> [c.dir EXCEPT !.st = "gone", !.finalizer.alive = FALSE],
          fs |-> c.fs, log |-> c.log,
          errs |-> IF Len(c.log) = 2 THEN <<NoExc, NoExc>>
                   ELSE <<Rmtree(f, r.finalizer.name, flt).exc>>]
    ELSE [dir |-> [r EXCEPT !.st = "gone"], fs |-> f, log |-> <<>>,
          errs |-> <<>>]

\* the finalizers are called one after the other, the last registered
\* first
RECURSIVE ExitFunc(_, _, _, _)
ExitFunc(ds, f, d, flt) ==
    IF d = 0 THEN [dirs |-> ds, fs |-> f, log |-> <<>>, errs |-> <<>>]
    ELSE LET r == AtExit(ds[d], f, flt)
             rest == ExitFunc([ds EXCEPT ![d] = r.dir], r.fs, d - 1, flt)
         IN  [rest EXCEPT !.log = r.log \o @, !.errs = r.errs \o @]

\* the interpreter exits: its objects are gone and it creates none
Shutdown ==
    /\ \E d \in DirIds : dirs[d].st # "gone"
    /\ \E flt \in Faults({"rmtree"}) :
          \E r \in {ExitFunc(dirs, fs, MaxDirs, flt)} :
              /\ fs' = r.fs
              /\ dirs' = r.dirs
              /\ last' = [Call("exit", 0, NoExc, NoPath, NoFd, r.log)
                            EXCEPT !.errs = r.errs,
                                   !.removed = Removed(fs, r.fs)]
    /\ UNCHANGED <<fds, files, streams, O_TMPFILE_WORKS, oserrors, python>>

\* the caller fills the directory: a file, a subdirectory holding a file,
\* a symbolic link to another directory
Populate(d) ==
    /\ dirs[d].st = "live"
    /\ dirs[d].held
    /\ IsDir(fs, dirs[d].name)
    /\ LET p == dirs[d].name
           sub == Append(p, "sub")
       IN  \/ /\ ~Exists(fs, Append(p, "f"))
              /\ fs' = Add(fs, Append(p, "f"), FileEntry(ByUser))
           \/ /\ ~Exists(fs, sub)
              /\ fs' = Add(Add(fs, sub, DirEntry(ByUser)),
                           Append(sub, "g"), FileEntry(ByUser))
           \/ /\ ~Exists(fs, Append(p, "lnk"))
              /\ \E t \in ({ExtDir} \cup TempPaths) \ {p} :
                    /\ IsDir(fs, t)
                    /\ fs' = Add(fs, Append(p, "lnk"), LinkEntry(t))
    /\ last' = Call("populate", d, NoExc, NoPath, NoFd, <<>>)
    /\ UNCHANGED <<fds, files, streams, dirs, O_TMPFILE_WORKS, oserrors, python>>

\* _infer_return_type(*args), called from outside the module
Infer ==
    /\ \E args \in ArgLists :
          \E r \in {_infer_return_type(args)} :
              last' = [Call("_infer_return_type", 0, r.exc,
                            IF r.exc = NoExc THEN <<r.type>> ELSE NoPath,
                            NoFd, <<>>)
                         EXCEPT !.asked = args]
    /\ UNCHANGED <<fs, fds, files, streams, dirs, O_TMPFILE_WORKS, oserrors, python>>

\* _sanitize_params(prefix, suffix, dir), called from outside the module;
\* ret holds the prefix, the suffix and the dir returned, name.type the
\* output_type
Sanitize ==
    /\ \E prefix \in Kinds, suffix \in Kinds, dir \in DirArgs :
          \E r \in {_sanitize_params(prefix, suffix, dir)} :
              last' = [Call("_sanitize_params", 0, r.exc, NoPath, NoFd, <<>>)
                         EXCEPT !.asked = <<prefix, suffix, dir>>,
                                !.ret = <<r.prefix, r.suffix, r.dir>>,
                                !.name = [NoName EXCEPT !.type = r.output_type]]
    /\ UNCHANGED <<fs, fds, files, streams, dirs, O_TMPFILE_WORKS, oserrors, python>>

\* another program creates a file in the temporary directory under a name
\* the generator can draw
Squat ==
    /\ \E t \in Tokens :
          /\ ~Exists(fs, TempPath(TmpDir, t))
          /\ fs' = Add(fs, TempPath(TmpDir, t), FileEntry(ByUser))
    /\ last' = Call("other program", 0, NoExc, NoPath, NoFd, <<>>)
    /\ UNCHANGED <<fds, files, streams, dirs, O_TMPFILE_WORKS, oserrors, python>>

(***************************************************************************)
(* The specifications.                                                     *)
(***************************************************************************)
InitFs ==
    [q \in {TmpDir, ExtDir, RoDir, Append(ExtDir, "keep")} |->
        IF q = Append(ExtDir, "keep") THEN FileEntry(ByUser) ELSE DirEntry(ByUser)]

InitObjects ==
    /\ fs = InitFs
    /\ fds = {}
    /\ files = [h \in FileIds |-> NoFile]
    /\ streams = {}
    /\ dirs = [d \in DirIds |-> NoDirObj]
    \* hasattr(os, 'O_TMPFILE')
    /\ O_TMPFILE_WORKS \in BOOLEAN
    /\ last = Call("import", 0, NoExc, NoPath, NoFd, <<>>)

\* Python 3.5 or later; system calls fail only for what the file system holds
Init == InitObjects /\ oserrors = FALSE /\ python = "3.5"

InitFaults == InitObjects /\ oserrors = TRUE /\ python = "3.5"

\* either interpreter; os.O_TMPFILE exists from Python 3.4 on
InitAnyPython ==
    /\ InitObjects
    /\ oserrors = FALSE
    /\ python \in PythonVersions
    /\ python = "2.7" => ~O_TMPFILE_WORKS

\* any interpreter the module has a branch for
InitEveryPython ==
    /\ InitObjects
    /\ oserrors = FALSE
    /\ python \in PythonVersions \cup {OlderPython3}
    /\ python = "2.7" => ~O_TMPFILE_WORKS

NextFiles ==
    \/ \E h \in FileIds : NamedTemporaryFile(h)
    \/ \E h \in FileIds : FileClose(h)
    \/ \E h \in FileIds : FileEnter(h)
    \/ \E h \in FileIds : FileExit(h)
    \/ \E h \in FileIds : FileDrop(h)
    \/ \E h \in FileIds : CloserDel(h)

\* the named temporary files and the methods looked up through them, by a
\* program that drops its handles and methods and uses no with statement
NextMethods ==
    \/ \E h \in FileIds : NamedTemporaryFile(h)
    \/ \E h \in FileIds : FileClose(h)
    \/ \E h \in FileIds : FileDrop(h)
    \/ \E h \in FileIds : CloserDel(h)
    \/ \E h \in FileIds : FileGetAttr(h)
    \/ \E h \in FileIds : FileCallMethod(h)
    \/ \E h \in FileIds : FileDropMethod(h)

\* the named temporary files used in with statements, by a program that
\* keeps its handles
NextScopes ==
    \/ \E h \in FileIds : NamedTemporaryFile(h)
    \/ \E h \in FileIds : FileClose(h)
    \/ \E h \in FileIds : FileEnter(h)
    \/ \E h \in FileIds : FileExit(h)
    \/ \E h \in FileIds : FileGetAttr(h)
    \/ \E h \in FileIds : FileCallMethod(h)

\* the named temporary files iterated over, by a program that leaves the
\* closing to the closer's __del__
NextIter ==
    \/ \E h \in FileIds : NamedTemporaryFile(h)
    \/ \E h \in FileIds : FileDrop(h)
    \/ \E h \in FileIds : CloserDel(h)
    \/ \E h \in FileIds : FileIter(h)
    \/ \E h \in FileIds : IterNext(h)
    \/ \E h \in FileIds : IterDrop(h)

\* NamedTemporaryFile(delete=...) with the naming arguments left out
NamedTemporaryFileDefault(h) ==
    /\ files[h].st = "none"
    /\ Cardinality(fds) < FdLimit
    /\ \E delete \in BOOLEAN, toks \in TokenDraws :
          \E r \in {NamedTemporaryFileCall(h, "None", "None", NoDirArg, delete,
                                          "w+b", toks, {})} :
              /\ fs' = r.fs
              /\ fds' = r.fds
              /\ files' = [files EXCEPT ![h] = r.file]
              /\ last' = [r.call EXCEPT !.asked = <<"None", "None", NoDirArg>>]
    /\ UNCHANGED <<streams, dirs, O_TMPFILE_WORKS, oserrors, python>>

\* TemporaryDirectory() with the naming arguments left out
TemporaryDirectoryDefault(d) ==
    /\ dirs[d].st = "none"
    /\ \E toks \in TokenDraws :
          \E r \in {DirInit(d, "None", "None", NoDirArg, toks)} :
              /\ fs' = r.fs
              /\ dirs' = [dirs EXCEPT ![d] = r.dir]
              /\ last' = [r.call EXCEPT !.asked = <<"None", "None", NoDirArg>>]
    /\ UNCHANGED <<fds, files, streams, O_TMPFILE_WORKS, oserrors, python>>

\* a program that keeps named files and directories at once, all in the
\* default temporary directory, and releases them by hand; the slots are
\* filled in their order
NextOwn ==
    \/ \E h \in FileIds :
          /\ (\A g \in 1..(h - 1) : files[g].st # "none")
          /\ NamedTemporaryFileDefault(h)
    \/ \E h \in FileIds : FileClose(h)
    \/ \E d \in DirIds :
          /\ (\A e \in 1..(d - 1) : dirs[e].st # "none")
          /\ TemporaryDirectoryDefault(d)
    \/ \E d \in DirIds : DirCleanup(d)

\* named files created with the naming arguments left out, closed by hand
\* and by with statements
NextClose ==
    \/ \E h \in FileIds : NamedTemporaryFileDefault(h)
    \/ \E h \in FileIds : FileClose(h)
    \/ \E h \in FileIds : FileEnter(h)
    \/ \E h \in FileIds : FileExit(h)

\* directories whose name attribute the caller assigns to
NextRename ==
    \/ \E d \in DirIds : TemporaryDirectoryDefault(d)
    \/ \E d \in DirIds : DirSetName(d)
    \/ \E d \in DirIds : DirCleanup(d)
    \/ \E d \in DirIds : DirDrop(d)
    \/ \E d \in DirIds : DirFinalize(d)

\* directories created with the naming arguments left out, through every
\* way they are released, the exit of the interpreter included
NextRelease ==
    \/ \E d \in DirIds : TemporaryDirectoryDefault(d)
    \/ \E d \in DirIds : DirCleanup(d)
    \/ \E d \in DirIds : DirEnter(d)
    \/ \E d \in DirIds : DirExit(d)
    \/ \E d \in DirIds : DirDrop(d)
    \/ \E d \in DirIds : DirFinalize(d)
    \/ Shutdown

NextAnon ==
    \/ TemporaryFile
    \/ \E fd \in Fds : StreamCloseAnon(fd)

NextDirs ==
    \/ \E d \in DirIds : TemporaryDirectory(d)
    \/ \E d \in DirIds : DirCleanup(d)
    \/ \E d \in DirIds : DirEnter(d)
    \/ \E d \in DirIds : DirExit(d)
    \/ \E d \in DirIds : DirDrop(d)
    \/ \E d \in DirIds : DirFinalize(d)
    \/ \E d \in DirIds : Populate(d)

\* the calls that create a named entry, by a program that keeps temporary
\* files or temporary directories, in a temporary directory other programs
\* use too; what another object of the program could do to a call, taking
\* the name it draws, the other programs do
NextCreate ==
    \/ /\ \A d \in DirIds : dirs[d].st = "none"
       /\ \E h \in FileIds : NamedTemporaryFile(h)
    \/ /\ \A h \in FileIds : files[h].st = "none"
       /\ \E d \in DirIds : TemporaryDirectory(d)
    \/ Squat

Next ==
    \/ NextFiles \/ NextMethods \/ NextScopes \/ NextIter \/ NextOwn \/ NextClose
    \/ NextRename \/ NextRelease \/ NextAnon
    \/ NextDirs \/ Shutdown \/ Squat \/ Infer \/ Sanitize

\* the whole module; system calls fail only for what the file system holds
Spec == Init /\ [][Next]_vars

\* the named temporary files alone
FileSpec == Init /\ [][NextFiles]_vars

\* the named temporary files alone; a closer nothing refers to is reclaimed
\* in the end (at once, where objects are reference-counted)
FileFairSpec == FileSpec /\ \A h \in FileIds : WF_vars(CloserDel(h))

\* the named temporary files and the methods looked up through them
MethodSpec == Init /\ [][NextMethods]_vars

\* the named temporary files iterated over
IterSpec == Init /\ [][NextIter]_vars

\* named files and directories side by side
OwnSpec == Init /\ [][NextOwn]_vars

\* the named temporary files in with statements
ScopeSpec == Init /\ [][NextScopes]_vars

\* the named temporary files, with system calls that may also fail with
\* permission and I/O errors
FileFaultSpec == InitFaults /\ [][NextFiles]_vars

\* the closing of named temporary files, with such failures
CloseFaultSpec == InitFaults /\ [][NextClose]_vars

\* the anonymous temporary files alone, with such failures
AnonFaultSpec == InitFaults /\ [][NextAnon]_vars

\* the creating calls alone, under either interpreter, in a temporary
\* directory other programs use too
CreateSpec == InitAnyPython /\ [][NextCreate]_vars

\* _infer_return_type alone, over every list of arguments
InferSpec == Init /\ [][Infer]_vars

\* _sanitize_params alone, over every combination of arguments, under any
\* interpreter
SanitizeSpec == InitEveryPython /\ [][Sanitize]_vars

\* the temporary directories alone
DirSpec == Init /\ [][NextDirs]_vars

\* the temporary directories whose name attribute is assigned to
RenameSpec == Init /\ [][NextRename]_vars

\* the releasing of temporary directories, with removals that may fail
ReleaseFaultSpec == InitFaults /\ [][NextRelease]_vars

\* the temporary directories, up to the exit of the interpreter
ShutdownSpec == Init /\ [][NextDirs \/ Shutdown]_vars

\* the temporary directories alone; an object nobody refers to is
\* collected in the end, at the latest when the interpreter exits
DirFairSpec == DirSpec /\ \A d \in DirIds : WF_vars(DirFinalize(d))

(***************************************************************************)
(* The properties.                                                         *)
(***************************************************************************)
\* what slot h (by) created is still in the file system
Present(by) == \E q \in DOMAIN fs : fs[q].by = by
\* q is p or lies below it
Under(q, p) == Len(q) >= Len(p) /\ SubSeq(q, 1, Len(p)) = p

\* C1: once close() has been called on a handle created with delete=true,
\* its stream was closed once and its path unlinked once, the file is gone,
\* and a second or later close() makes no system call and raises nothing.
C1_CloseOnce ==
    \A h \in FileIds :
        (files[h].st # "none" /\ files[h].delete /\ files[h].nclose >= 1) =>
            /\ files[h].close_called
            /\ files[h].closed
            /\ files[h].fdcloses = 1
            /\ files[h].unlinks = 1
            /\ ~Present(ByFile(h))
            /\ (last.op = "file.close" /\ last.obj = h /\ files[h].nclose >= 2) =>
                   (last.log = <<>> /\ last.exc = NoExc)

C1_Witness ==
    \E h \in FileIds :
        /\ files[h].delete
        /\ files[h].nclose = 2
        /\ last.op = "file.close"
        /\ last.obj = h

\* C2: the file of a handle created with delete=false stays in the file
\* system whatever is done with the handle, and so after close(); the file
\* of a handle created with delete=true is gone when close() has returned.
C2_DeleteFlag ==
    \A h \in FileIds :
        /\ (files[h].st # "none" /\ ~files[h].delete) =>
               (Exists(fs, files[h].name)
                   /\ fs[files[h].name] = FileEntry(ByFile(h)))
        /\ (files[h].st # "none" /\ files[h].delete /\ last.op = "file.close"
               /\ last.obj = h /\ last.exc = NoExc) =>
               ~Present(ByFile(h))

C2_Witness ==
    \E h \in FileIds :
        /\ ~files[h].delete
        /\ files[h].close_called
        /\ last.op = "file.close"
        /\ last.obj = h
        /\ Exists(fs, files[h].name)

\* C3: when NamedTemporaryFile raises after the file was created, the
\* descriptor has been closed, once, and the file removed, whatever failed.
C3_NoLeakOnFailure ==
    (last.op = "NamedTemporaryFile" /\ last.exc # NoExc /\ last.fd # NoFd) =>
        /\ last.fd \notin fds
        /\ Count(last.log, "close") = 1
        /\ ~Present(ByFile(last.obj))

\* C4: when TemporaryFile raises after it obtained a descriptor, by
\* O_TMPFILE or by the fallback, the descriptor has been closed, once.
C4_DescriptorClosed ==
    (last.op = "TemporaryFile" /\ last.exc # NoExc /\ last.fd # NoFd) =>
        /\ last.fd \notin fds
        /\ Count(last.log, "close") = 1

C4_Witness ==
    /\ last.op = "TemporaryFile"
    /\ last.exc # NoExc
    /\ last.fd # NoFd
    /\ ~O_TMPFILE_WORKS

\* live, reachable or not, with the finalizer never detached nor called
Leaked(d) == dirs[d].st = "live" /\ ~dirs[d].held /\ dirs[d].finalizer.alive

\* C5: once cleanup() has been called the finalizer is detached and the
\* tree was removed, by one rmtree; a second or later cleanup() removes
\* nothing, warns of nothing and raises nothing.
C5_CleanupIdempotent ==
    \A d \in DirIds :
        (dirs[d].st # "none" /\ dirs[d].ncleanup >= 1) =>
            /\ ~dirs[d].finalizer.alive
            /\ dirs[d].rm_cleanup = 1
            /\ dirs[d].rm_finalizer = 0
            /\ dirs[d].warned = 0
            /\ ~Present(ByDir(d))
            /\ (last.op = "dir.cleanup" /\ last.obj = d /\ dirs[d].ncleanup >= 2) =>
                   (last.log = <<>> /\ last.removed = {} /\ last.exc = NoExc)

C5_Witness ==
    \E d \in DirIds :
        /\ dirs[d].ncleanup = 2
        /\ last.op = "dir.cleanup"
        /\ last.obj = d

\* C6: __enter__ returns the name of the directory; after __exit__, whether
\* the block ended normally or by an error, cleanup has run: the finalizer
\* is detached and the tree is gone.
C6_ScopedCleanup ==
    /\ last.op = "dir.__enter__" =>
           (last.ret = dirs[last.obj].name /\ last.ret \in TempPaths)
    /\ last.op \in {"dir.__exit__", "dir.__exit__ on error"} =>
           /\ ~dirs[last.obj].finalizer.alive
           /\ dirs[last.obj].rm_cleanup = 1
           /\ ~Present(ByDir(last.obj))
           /\ last.exc = NoExc

C6_Witness ==
    /\ last.op = "dir.__exit__ on error"
    /\ last.removed # {}
    /\ ~Present(ByDir(last.obj))

\* C7: a directory object dropped with its finalizer alive (cleanup never
\* ran) is collected in the end, and then its tree is gone and the leak
\* warning has been emitted.
C7_CollectedInTheEnd ==
    \A d \in DirIds :
        Leaked(d) ~> (/\ dirs[d].st = "gone"
                      /\ dirs[d].rm_finalizer = 1
                      /\ dirs[d].warned = 1
                      /\ ~Present(ByDir(d)))

C7_Witness ==
    \E d \in DirIds :
        /\ dirs[d].st = "gone"
        /\ dirs[d].warned = 1
        /\ last.op = "finalize"
        /\ last.log = <<"rmtree", "warn">>
        /\ ~Present(ByDir(d))

C9_MissingDir ==
    /\ (last.op = "TemporaryDirectory" /\ last.arg = NoDir) =>
           /\ last.exc = ENOENT
           /\ last.log = <<"mkdir">>
           /\ dirs[last.obj] = NoDirObj
           /\ ~Present(ByDir(last.obj))
    /\ \A d \in DirIds : dirs[d].st = "none" => dirs[d] = NoDirObj

C9_Witness ==
    /\ last.op = "TemporaryDirectory"
    /\ last.arg = NoDir
    /\ last.exc = ENOENT

\* C10: a step that removes the tree of a directory object (cleanup,
\* __exit__ or the finalizer) removes every entry at or below its path, a
\* symbolic link among them as a link, and leaves every other entry, the
\* link's target and its contents included, as it was.
C10_LinksNotFollowed ==
    [][\A d \in DirIds :
          (dirs[d].finalizer.alive /\ ~dirs'[d].finalizer.alive) =>
              \A q \in DOMAIN fs :
                  IF Under(q, dirs[d].name)
                  THEN q \notin DOMAIN fs'
                  ELSE q \in DOMAIN fs' /\ fs'[q] = fs[q]]_vars

C10_Witness ==
    /\ last.op = "dir.cleanup"
    /\ \E e \in last.removed :
          /\ e.kind = "link"
          /\ IsDir(fs, e.to)
          /\ Children(fs, e.to) # {}

\* C11: a method looked up through a handle keeps the file open and on disk
\* after the caller has dropped the handle, for as long as the caller holds
\* the method and never called close(): calling the method succeeds; the
\* closer has run its __del__ only when the handle and every method looked up
\* are gone; and no func_wrapper refers back to the wrapper, so a wrapper the
\* caller dropped is reclaimed at once.
C11_MethodKeepsFileOpen ==
    \A h \in FileIds :
        /\ (files[h].st # "none" /\ files[h].methods # {} /\ files[h].nclose = 0) =>
               /\ ~files[h].closed
               /\ ~files[h].close_called
               /\ files[h].fd \in fds
               /\ Exists(fs, files[h].name)
               /\ fs[files[h].name] = FileEntry(ByFile(h))
        /\ (last.op = "file.method" /\ last.obj = h /\ files[h].nclose = 0) =>
               last.exc = NoExc
        /\ files[h].st = "gone" => (~files[h].held /\ files[h].methods = {})
        /\ (files[h].st # "none" /\ ~files[h].held) => ~WrapperAlive(files[h])

C11_Witness ==
    \E h \in FileIds :
        /\ ~files[h].held
        /\ files[h].delete
        /\ files[h].methods # {}
        /\ files[h].nclose = 0
        /\ last.op = "file.method"
        /\ last.obj = h
        /\ last.exc = NoExc

\* C12: inside the scope of a handle that was not closed by hand the stream
\* is open and the path exists; when __exit__ has returned the stream is
\* closed, the descriptor released once (its number is open again only as
\* the descriptor of a later file) and, with delete=true, the path gone;
\* once the scope was left or close() was called, entering the handle again
\* and calling a method of the stream raise ValueError.
C12_ScopeExitCloses ==
    \A h \in FileIds :
        /\ (files[h].inscope /\ files[h].nclose = 0) =>
               /\ ~files[h].closed
               /\ Exists(fs, files[h].name)
               /\ fs[files[h].name] = FileEntry(ByFile(h))
        /\ (last.op = "file.__exit__" /\ last.obj = h) =>
               /\ ~files[h].inscope
               /\ files[h].closed
               /\ files[h].close_called
               /\ files[h].nclose >= 1
               /\ files[h].fdcloses = 1
               /\ files[h].fd \in fds =>
                      \E g \in FileIds \ {h} :
                          files[g].fd = files[h].fd /\ ~files[g].closed
               /\ files[h].delete => ~Present(ByFile(h))
        /\ (last.op \in {"file.__enter__", "file.method"} /\ last.obj = h
               /\ files[h].nclose >= 1) =>
               last.exc = Err("ValueError", "none")

C12_Witness ==
    \E h \in FileIds :
        /\ last.op = "file.__exit__"
        /\ last.obj = h
        /\ last.log = <<"close", "unlink">>
        /\ files[h].delete
        /\ files[h].nclose = 1
        /\ ~Present(ByFile(h))

\* the calls that create a named entry
CreateOps == {"NamedTemporaryFile", "TemporaryDirectory"}
\* the types of the naming arguments a call was given
AskedKinds(c) ==
    {k \in {c.asked[1], c.asked[2], c.asked[3].k} : k # "None"}
\* a call that created a name from arguments of one domain
NamedFromOneDomain ==
    /\ last.op \in CreateOps
    /\ last.exc = NoExc
    /\ Cardinality(AskedKinds(last)) <= 1
\* the name lies directly inside dir, starts with the prefix and ends with
\* the suffix, and has the type of the components given
NamePlacedAndTyped ==
    /\ Exists(fs, last.ret)
    /\ Parent(last.ret) = last.name.dir
    /\ last.name.dir = IF last.asked[3].k = "None" THEN TmpDir
                       ELSE last.asked[3].path
    /\ Len(last.name.base) = 3
    /\ last.name.base[1] = IF last.asked[1] = "None" THEN template ELSE "pre"
    /\ last.name.base[2] \in Tokens
    /\ last.name.base[3] = IF last.asked[2] = "None" THEN "" ELSE "suf"
    /\ \A k \in AskedKinds(last) : last.name.type = k

\* C13 as stated: every name created from arguments of one domain lies
\* directly inside dir, starts with the prefix, ends with the suffix, has
\* the type of the components given, and its random part is 8 characters
\* out of [a-z0-9_-].
C13_NameShape ==
    NamedFromOneDomain =>
        /\ NamePlacedAndTyped
        /\ last.name.random.len = 8
        /\ last.name.random.chars \subseteq {"a-z", "0-9", "_", "-"}

\* C13, amended: the same, with the random part as the interpreter's
\* standard library draws it: 8 characters out of [a-z0-9_-] under
\* Python 3, 6 characters out of [a-zA-Z0-9_-] under Python 2.
C13_NameShapePerPython ==
    NamedFromOneDomain =>
        /\ NamePlacedAndTyped
        /\ python = "3.5" =>
               /\ last.name.random.len = 8
               /\ last.name.random.chars \subseteq {"a-z", "0-9", "_", "-"}
        /\ python = "2.7" =>
               /\ last.name.random.len = 6
               /\ last.name.random.chars \subseteq {"a-z", "A-Z", "0-9", "_", "-"}

C13_Witness ==
    /\ last.op = "NamedTemporaryFile"
    /\ last.exc = NoExc
    /\ python = "2.7"
    /\ AskedKinds(last) = {"bytes"}
    /\ last.name.base = <<"pre", last.ret[Len(last.ret)], "suf">>
    /\ last.name.type = "bytes"

\* C14: _infer_return_type raises TypeError exactly when a bytes argument
\* and a text argument are both present, wherever in the list and whatever
\* absent arguments lie between them; otherwise it returns bytes when some
\* argument is bytes, and text when none is, an empty or all-absent list
\* included.
C14_InferReturnType ==
    last.op = "_infer_return_type" =>
        LET args == last.asked
            bytes == \E i \in 1..Len(args) : args[i] = "bytes"
            text == \E i \in 1..Len(args) : args[i] = "str"
        IN  /\ last.exc = MixedTypes <=> (bytes /\ text)
            /\ last.exc # MixedTypes =>
                   /\ last.exc = NoExc
                   /\ last.ret = <<IF bytes THEN "bytes" ELSE "str">>

C14_Witness ==
    /\ last.op = "_infer_return_type"
    /\ last.asked = <<"bytes", "None", "str">>
    /\ last.exc = MixedTypes

\* the attempts of a creating call at creating a candidate: positions in
\* its log
Attempts(c) == {i \in 1..Len(c.log) : c.log[i] \in {"open", "mkdir"}}

\* C15: in a creating call a further candidate is tried exactly when the
\* attempt before it raised FileExistsError (and the budget is not used
\* up); an attempt that raises anything else is the last one and its error
\* is the error of the call.
C15_RetryOnlyOnCollision ==
    last.op \in CreateOps =>
        \A i \in Attempts(last) :
            /\ (i + 1 \in Attempts(last)) <=>
                   (last.errs[i] = EEXIST /\ i < TMP_MAX)
            /\ last.errs[i] \notin {NoExc, EEXIST} =>
                   /\ last.exc = last.errs[i]
                   /\ last.errs[i] \in {ENOENT, EACCES}
                   /\ last.log = [j \in 1..i |-> last.log[1]]

C15_Witness ==
    /\ last.op = "NamedTemporaryFile"
    /\ Attempts(last) = {1, 2}
    /\ last.errs[1] = EEXIST
    /\ last.errs[2] = NoExc
    /\ last.exc = NoExc

\* C16: a creating call makes at most TMP_MAX attempts; it raises "no
\* usable temporary name" exactly when it made TMP_MAX attempts and each
\* found its name taken, and then it has created nothing.
C16_BoundedAttempts ==
    last.op \in CreateOps =>
        /\ Cardinality(Attempts(last)) <= TMP_MAX
        /\ last.exc = NoUsableName <=>
               /\ Cardinality(Attempts(last)) = TMP_MAX
               /\ \A i \in Attempts(last) : last.errs[i] = EEXIST
        /\ last.exc = NoUsableName =>
               /\ last.log = [j \in 1..TMP_MAX |-> last.log[1]]
               /\ last.ret = NoPath
               /\ ~Present(IF last.op = "TemporaryDirectory"
                           THEN ByDir(last.obj) ELSE ByFile(last.obj))

C16_Witness ==
    /\ last.op = "TemporaryDirectory"
    /\ last.exc = NoUsableName
    /\ Cardinality(Attempts(last)) = TMP_MAX

Fatal(c) == {i \in 1..Len(c.errs) : c.errs[i] \notin {NoExc, EEXIST}}

\* C18: the error a creating call raises is the first error raised inside
\* it that is not a name collision, as it was raised: TypeError of mixed
\* types, "no usable temporary name", the OSError of the failed creation,
\* the error of io.open; only name collisions are caught and survived.
C18_ErrorsUnmodified ==
    last.op \in {"NamedTemporaryFile", "TemporaryFile", "TemporaryDirectory"} =>
        /\ Fatal(last) # {} =>
               last.exc = last.errs[CHOOSE i \in Fatal(last) :
                                       \A j \in Fatal(last) : i <= j]
        /\ (Fatal(last) = {} /\ last.exc # NoExc) =>
               \/ last.exc = MixedTypes /\ last.log = <<>>
               \/ last.exc = NoUsableName /\ Len(last.errs) >= TMP_MAX

\* the call made the O_TMPFILE attempt / the attempt raised
Probed(c) == c.log # <<>> /\ c.log[1] = "open(O_TMPFILE)"
ProbeFailed(c) == Probed(c) /\ c.errs[1] # NoExc

\* C19 as stated: the TemporaryFile call that follows one whose O_TMPFILE
\* attempt failed, for either reason, does not make the attempt.
C19_NeverProbesAgain ==
    [][(last.op = "TemporaryFile" /\ ProbeFailed(last)
          /\ last.errs[1] \in {EISDIR, EOPNOTSUPP}
          /\ last'.op = "TemporaryFile")
       => ~Probed(last')]_vars

\* C19, amended: _O_TMPFILE_WORKS, once cleared, is never set again, and a
\* TemporaryFile call then goes to the fallback without the O_TMPFILE
\* attempt; a call whose attempt raised falls back in the same call and
\* returns a stream unless a step of the fallback fails or no name is free,
\* and then raises that error; the attempt clears the
\* flag exactly when it raised IsADirectoryError: after any other OSError
\* (a file system without support) the flag stays and the next call makes
\* the attempt again.
C19_FlagClearedByIsADirectoryError ==
    [][/\ ~O_TMPFILE_WORKS => ~O_TMPFILE_WORKS'
       /\ last'.op # "TemporaryFile" => O_TMPFILE_WORKS' = O_TMPFILE_WORKS
       /\ (last'.op = "TemporaryFile" /\ last'.log # <<>>) =>
              /\ Probed(last') <=> O_TMPFILE_WORKS
              /\ ProbeFailed(last') =>
                     /\ O_TMPFILE_WORKS' <=> last'.errs[1] # EISDIR
                     /\ Len(last'.log) >= 2 /\ last'.log[2] = "open"
                     /\ last'.exc = NoExc =>
                            (last'.fd \in streams' /\ last'.fd \notin streams)
                     /\ last'.exc # NoExc =>
                            \/ last'.exc = NoUsableName
                            \/ \E i \in 2..Len(last'.errs) :
                                   last'.errs[i] = last'.exc
       ]_vars

C19_Witness ==
    /\ last.op = "TemporaryFile"
    /\ ProbeFailed(last)
    /\ last.errs[1] = EISDIR
    /\ ~O_TMPFILE_WORKS
    /\ last.exc = NoExc
    /\ last.fd \in streams

\* the call ran os.unlink and it raised
UnlinkFailed(c) ==
    \E i \in 1..Len(c.log) : c.log[i] = "unlink" /\ c.errs[i] # NoExc

\* C20 as stated: a TemporaryFile call, whether it returns a stream (by
\* O_TMPFILE or by the fallback) or fails, leaves no entry in the file
\* system.
C20_NoEntryLeft ==
    [][last'.op = "TemporaryFile" => fs' = fs]_vars

\* C20, amended: a TemporaryFile call that returns a stream, by O_TMPFILE
\* or by the fallback, leaves the directory as it was, and so does a call
\* that fails, unless what failed is the unlink of the fallback: then the
\* file the call created stays, and nothing else is changed.
C20_NoEntryLeftUnlessUnlinkFails ==
    [][last'.op = "TemporaryFile" =>
          IF UnlinkFailed(last')
          THEN /\ last'.exc # NoExc
               /\ \E q \in (DOMAIN fs') \ (DOMAIN fs) :
                      /\ DOMAIN fs' = (DOMAIN fs) \cup {q}
                      /\ fs'[q] = FileEntry(ByAnon)
               /\ \A q \in DOMAIN fs : fs'[q] = fs[q]
          ELSE fs' = fs]_vars

C20_Witness ==
    /\ last.op = "TemporaryFile"
    /\ last.exc = NoExc
    /\ last.log = <<"open(O_TMPFILE)", "open", "unlink", "io.open">>
    /\ last.errs[1] = EOPNOTSUPP
    /\ last.fd \in streams
    /\ Children(fs, TmpDir) = {}

\* C21: for a handle created with delete=true, whatever the order of
\* close(), __exit__ and the closer's __del__, the stream is closed and the
\* path unlinked at most once, both by the first of them; a trigger that
\* comes after the first makes no system call; and a handle dropped before
\* any close is closed in the end, its path removed.
C21_ReleasedOnce ==
    /\ [](\A h \in FileIds :
             (files[h].st # "none" /\ files[h].delete) =>
                 /\ files[h].fdcloses <= 1
                 /\ files[h].unlinks = files[h].fdcloses
                 /\ files[h].close_called <=> files[h].unlinks = 1
                 /\ files[h].close_called <=> ~Present(ByFile(h)))
    /\ [][\A h \in FileIds :
             (files[h].st = "live" /\ files[h].delete /\ files[h].close_called
                /\ last'.obj = h
                /\ last'.op \in {"file.close", "file.__exit__", "closer.__del__"})
             => (last'.log = <<>> /\ fs' = fs /\ fds' = fds)]_vars
    /\ \A h \in FileIds :
          (files[h].st = "live" /\ files[h].delete /\ ~files[h].held
              /\ ~files[h].close_called)
          ~> (/\ files[h].st = "gone"
              /\ files[h].closed
              /\ files[h].unlinks = 1
              /\ files[h].fd \notin fds
              /\ ~Present(ByFile(h)))

C21_Witness ==
    \E h \in FileIds :
        /\ files[h].st = "gone"
        /\ files[h].delete
        /\ files[h].nclose = 0
        /\ files[h].unlinks = 1
        /\ last.op = "closer.__del__"
        /\ last.log = <<"close", "unlink">>

\* C22: next() on the iterator of a handle yields the lines of the stream
\* one after the other and raises StopIteration after the last; while the
\* iterator is live and close() was never called, the file is open and on
\* disk, even when the caller dropped the handle; and neither a next(),
\* the last included, nor dropping the iterator closes the stream or
\* removes the file.
C22_IterKeepsFileOpen ==
    /\ [](\A h \in FileIds :
             /\ (files[h].iter # "none" /\ files[h].nclose = 0) =>
                    /\ files[h].st = "live"
                    /\ ~files[h].closed
                    /\ ~files[h].close_called
                    /\ files[h].fd \in fds
                    /\ Exists(fs, files[h].name)
                    /\ fs[files[h].name] = FileEntry(ByFile(h))
             /\ (last.op = "iter.next" /\ last.obj = h /\ last.exc = NoExc) =>
                    (files[h].pos >= 1 /\ last.arg = <<Lines[files[h].pos]>>)
             /\ (last.op = "iter.next" /\ last.obj = h
                    /\ last.exc = Err("StopIteration", "none")) =>
                    files[h].pos = Len(Lines))
    /\ [][\A h \in FileIds :
             (last'.op \in {"iter.next", "iter.del"} /\ last'.obj = h) =>
                 /\ fs' = fs
                 /\ fds' = fds
                 /\ files'[h].closed = files[h].closed
                 /\ files'[h].close_called = files[h].close_called
                 /\ files'[h].fdcloses = files[h].fdcloses
                 /\ files'[h].unlinks = files[h].unlinks
                 /\ files'[h].pos =
                        IF last'.op = "iter.next" /\ last'.exc = NoExc
                        THEN files[h].pos + 1 ELSE files[h].pos]_vars

C22_Witness ==
    \E h \in FileIds :
        /\ ~files[h].held
        /\ files[h].delete
        /\ files[h].iter = "generator"
        /\ files[h].pos = Len(Lines)
        /\ last.op = "iter.next"
        /\ last.obj = h
        /\ last.exc = NoExc
        /\ ~files[h].closed
        /\ Exists(fs, files[h].name)

\* a handle whose closer has not released the file / a directory object
\* whose finalizer is alive
LiveFile(h) == files[h].st = "live" /\ ~files[h].close_called
LiveDir(d) == dirs[d].st = "live" /\ dirs[d].finalizer.alive

C24_FinalizedAtExit ==
    [][last'.op = "exit" =>
          /\ last'.exc = NoExc
          /\ \A i \in 1..Len(last'.errs) : last'.errs[i] = NoExc
          /\ \A d \in DirIds :
                IF dirs[d].st = "live" /\ dirs[d].finalizer.alive
                THEN /\ dirs'[d].st = "gone"
                     /\ ~dirs'[d].finalizer.alive
                     /\ dirs'[d].rm_finalizer = 1
                     /\ dirs'[d].warned = 1
                     /\ \A q \in DOMAIN fs' : ~Under(q, dirs[d].name)
                ELSE /\ dirs'[d].rm_finalizer = dirs[d].rm_finalizer
                     /\ dirs'[d].warned = dirs[d].warned]_vars

C24_Witness ==
    \E d \in DirIds :
        /\ last.op = "exit"
        /\ dirs[d].held
        /\ dirs[d].inscope
        /\ dirs[d].warned = 1
        /\ last.removed # {}
        /\ ~Present(ByDir(d))

\* C25: when _sanitize_params returns, for arguments of one domain, the
\* output type is the one inferred from them and the prefix, the suffix
\* and the dir returned are all of it: what the caller gave is returned as
\* it was, an absent suffix is the empty value, an absent prefix is "tmp"
\* and an absent dir is the default temporary directory, each of that type.
C25_SanitizedInDomain ==
    (last.op = "_sanitize_params" /\ last.exc = NoExc) =>
        LET prefix == last.asked[1]
            suffix == last.asked[2]
            dir == last.asked[3]
            t == last.name.type
        IN  /\ t = _infer_return_type(<<prefix, suffix, dir.k>>).type
            /\ last.ret[1].k = t
            /\ last.ret[2].k = t
            /\ last.ret[3].k = t
            /\ last.ret[1] = IF prefix = "None" THEN Part(t, "tmp")
                             ELSE Part(prefix, "pre")
            /\ last.ret[2] = IF suffix = "None" THEN Part(t, "")
                             ELSE Part(suffix, "suf")
            /\ last.ret[3] = IF dir.k = "None" THEN DirArg(t, TmpDir) ELSE dir

\* C25 from Python 3.5 on and under Python 2
C25_SanitizedInDomainNotOlder3 ==
    python # OlderPython3 => C25_SanitizedInDomain

\* C26: a close() of a handle created with delete=true that does anything
\* closes the stream, if it is open, before it unlinks the path; when the
\* stream's close raised and the unlink did not, the caller gets the error
\* of the stream, the path is gone, the stream is closed and close_called is
\* set; every close() after the first does nothing and raises nothing.
C26_CloseErrorStillRemoves ==
    \A h \in FileIds :
        (last.op = "file.close" /\ last.obj = h /\ files[h].delete) =>
            /\ files[h].close_called
            /\ files[h].closed
            /\ last.log \in {<<>>, <<"unlink">>, <<"close", "unlink">>}
            /\ last.exc = EIO =>
                   /\ last.log = <<"close", "unlink">>
                   /\ files[h].nclose = 1
                   /\ files[h].unlinks = 1
                   /\ files[h].fd \notin fds
                   /\ ~Exists(fs, files[h].name)
            /\ files[h].nclose >= 2 => (last.log = <<>> /\ last.exc = NoExc)

C26_Witness ==
    \E h \in FileIds :
        /\ last.op = "file.close"
        /\ last.obj = h
        /\ files[h].delete
        /\ last.exc = EIO
        /\ last.log = <<"close", "unlink">>
        /\ files[h].close_called
        /\ ~Exists(fs, files[h].name)

\* C27: the finalizer holds the path the directory was created at, whatever
\* is assigned to the name attribute afterwards, and removes the tree at that
\* path; cleanup() removes the tree at the path the name attribute holds
\* when it is called; after an assignment the two act on different paths.
C27_FinalizerKeepsCreationPath ==
    [][\A d \in DirIds :
          /\ (last'.op = "TemporaryDirectory" /\ last'.obj = d
                  /\ last'.exc = NoExc) =>
                 /\ dirs'[d].name = last'.ret
                 /\ dirs'[d].finalizer.name = last'.ret
          /\ (dirs[d].st = "live" /\ last'.op # "TemporaryDirectory") =>
                 dirs'[d].finalizer.name = dirs[d].finalizer.name
          /\ (last'.op = "dir.name=" /\ last'.obj = d) =>
                 /\ dirs'[d].name = last'.arg
                 /\ fs' = fs
          /\ (last'.op = "finalize" /\ last'.obj = d /\ last'.log # <<>>
                  /\ IsDir(fs, dirs[d].finalizer.name)) =>
                 \A q \in DOMAIN fs :
                     q \notin DOMAIN fs' <=> Under(q, dirs[d].finalizer.name)
          /\ (last'.op = "dir.cleanup" /\ last'.obj = d /\ last'.log # <<>>
                  /\ IsDir(fs, dirs[d].name)) =>
                 \A q \in DOMAIN fs :
                     q \notin DOMAIN fs' <=> Under(q, dirs[d].name)]_vars

C27_Witness ==
    \E d \in DirIds :
        /\ last.op = "finalize"
        /\ last.obj = d
        /\ dirs[d].name = ExtDir
        /\ dirs[d].finalizer.name \in TempPaths
        /\ \E e \in last.removed : e.path = dirs[d].finalizer.name
        /\ Exists(fs, ExtDir)

\* the cleanup of d has failed: its one rmtree is made and the tree is there
CleanupFailed(d) ==
    /\ dirs[d].st # "none"
    /\ dirs[d].rm_cleanup = 1
    /\ Present(ByDir(d))

\* C28: a cleanup() or __exit__ whose rmtree fails raises that error with
\* the finalizer already detached; from then on no call on the object, no
\* collection of it and no exit of the interpreter calls rmtree for it or
\* warns of it, and its tree stays in the file system.
C28_NoRetryAfterFailedCleanup ==
    [][\A d \in DirIds :
          /\ (last'.op \in {"dir.cleanup", "dir.__exit__", "dir.__exit__ on error"}
                  /\ last'.obj = d /\ last'.exc # NoExc) =>
                 /\ last'.exc = EACCES
                 /\ last'.log = <<"rmtree">>
                 /\ dirs[d].finalizer.alive
                 /\ ~dirs'[d].finalizer.alive
                 /\ fs' = fs
                 /\ CleanupFailed(d)'
          /\ CleanupFailed(d) =>
                 /\ ~dirs[d].finalizer.alive
                 /\ CleanupFailed(d)'
                 /\ dirs'[d].rm_finalizer = 0
                 /\ dirs'[d].warned = 0
                 /\ \A q \in DOMAIN fs :
                        fs[q].by = ByDir(d) => (q \in DOMAIN fs' /\ fs'[q] = fs[q])
                 /\ last'.obj = d => (last'.log = <<>> /\ last'.exc = NoExc)]_vars

C28_Witness ==
    \E d \in DirIds :
        /\ CleanupFailed(d)
        /\ dirs[d].st = "gone"
        /\ dirs[d].ncleanup = 2
        /\ last.op \in {"finalize", "exit"}
        /\ last.log = <<>>
====
